---- MODULE Spec2Model ----
(***************************************************************************)
(* Model of mfile::file<Handle> (include/mfile/mfile.hpp): the layered     *)
(* read/write operations built on the single-syscall primitives, the       *)
(* whole-file read, and the syscall passthroughs, running against one      *)
(* regular file of the operating system.                                   *)
(*                                                                         *)
(* One step of the model is one system call together with the code that    *)
(* runs up to the next system call (or to the return of the operation).    *)
(* The operating system is the environment: a call returns any result the  *)
(* OS may give for a regular file that nobody else modifies.               *)
(***************************************************************************)
EXTENDS Integers, Sequences, FiniteSets, TLC

\* ------------------------------------------------------------------ bounds
\* Capacity of the device in bytes: a write at or past it stores nothing.
MaxFile == 3
\* Largest buffer (or size argument) a caller passes.
MaxBuf == 3
\* Signals (EINTR) delivered during one operation.
MaxIntr == 1
\* Passes of the whole-file read that are followed.
MaxPasses == 4
\* Width of std::size_t / std::uint64_t in bits (64 in the build).
WordBits == 16
\* file objects that live at the same time.
MaxObjects == 2
\* Descriptors the process opens in one run.
MaxOpens == 2

\* ------------------------------------------------------- program constants
\* mfile.hpp:560  constexpr std::size_t init_buffer_size = 4096;
init_buffer_size == 4096
\* mfile.hpp:292  invalid_file_handle::value
invalid_file_handle == -1

\* std::numeric_limits<std::size_t>::max()
SIZE_MAX == 2^WordBits - 1
\* std::vector<std::byte>::max_size(): PTRDIFF_MAX
VectorMaxSize == 2^(WordBits - 1) - 1
\* mfile.hpp:561  resize_factor_limit = SIZE_MAX / 3 * 2
resize_factor_limit == (SIZE_MAX \div 3) * 2

Byte == {0, 1, 2}
\* The byte sequences callers write: no zero byte, so a zero read back is a
\* hole, and no two neighbours equal, so a shifted copy differs.
Payloads == {[i \in 1..n |-> IF i % 2 = 1 THEN b ELSE 3 - b] : n \in 0..MaxBuf, b \in {1, 2}}

VARIABLES
  handle,         \* file::handle_ : the native descriptor, or -1
  content,        \* the bytes of the open file (the OS's state)
  cursor,         \* the descriptor's file position (the OS's state)
  pc,             \* where the running operation stands: "idle" between calls, "done" at its return
  op,             \* the running (or last) operation and its arguments
  data,           \* the byte_view `data` of read(byte_view)/write(cbyte_view): [base, size] in buffer
  buffer,         \* the destination buffer: [size, data]; bytes past Len(data) are zero
  bytes_read,     \* read(byte_view): bytes_read
  bytes_written,  \* write(cbyte_view): bytes_written
  total,          \* read(): bytes_read
  passes,         \* read(): the results of the calls of read(read_span) so far
  log,            \* the system calls the operation has issued, with their results
  outcome,        \* how the last operation ended
  short_read,     \* the last operation on the cursor was a saturating read that came back short
  held,           \* the result of the last whole-file read, while only seek, tell, stat or whole reads followed it
  files,          \* the file objects of the program: alive or not, the handle_ each holds
  fdtab,          \* the OS's descriptors: free, open or closed, and the calls made on each
  last,           \* the last operation on file objects and the system calls it made
  flags_          \* open_flags::flags_ of the value the program builds and opens its file with, as the set of its bits

\* The state of the file under I/O, of the file objects, and of the flags builder.
iovars == <<handle, content, cursor, pc, op, data, buffer, bytes_read,
            bytes_written, total, passes, log, outcome, short_read, held>>
objvars == <<files, fdtab, last>>
vars == <<iovars, objvars, flags_>>

\* ----------------------------------------------------------------- helpers
Min(a, b) == IF a < b THEN a ELSE b
Max(a, b) == IF a > b THEN a ELSE b
Zeros(n) == [i \in 1..n |-> 0]

\* Unsigned arithmetic of the word width.
Wrap(x) == x % (2^WordBits)

\* ------------------------------------------------------ the std::vector
\* The vector is kept as its size and the prefix that was stored into; the
\* elements past the prefix are the zeros of value-initialisation.
EmptyVector == [size |-> 0, data |-> <<>>]
\* The elements of the vector, in full.
Elements(v) == v.data \o Zeros(v.size - Len(v.data))
\* std::vector::resize(n) for n <= max_size(): a shrink drops the tail, a growth appends zeros.
Resize(v, n) == [size |-> n, data |-> SubSeq(v.data, 1, Min(n, Len(v.data)))]
\* Bytes `chunk` stored at offset `at` of the buffer (a read's destination).
Store(v, at, chunk) ==
  IF chunk = <<>> THEN v
  ELSE LET old == Elements([size |-> Max(v.size, at + Len(chunk)), data |-> v.data])
           upto == Max(Len(v.data), at + Len(chunk))
       IN [size |-> v.size,
           data |-> [i \in 1..upto |->
                       IF i > at /\ i <= at + Len(chunk) THEN chunk[i - at] ELSE old[i]]]

\* ------------------------------------------------------- open_flags
\* A flag word is the set of the positions of its bits that are set; the
\* flags of <fcntl.h> as Linux defines them.
O_RDONLY == {}
O_WRONLY == {0}
O_RDWR == {1}
O_CREAT == {6}
O_EXCL == {7}
O_TRUNC == {9}
O_APPEND == {10}
O_SYNC == {12, 20}
O_DIRECT == {14}
O_TMPFILE == {16, 22}
O_NOATIME == {18}
O_CLOEXEC == {19}
\* The bits a std::uint16_t holds.
AsUint16(bits) == {b \in bits : b < 16}
BasicModes == {"r", "rp", "w", "wp", "x", "xp", "a", "ap"}
\* enum class basic_mode : std::uint16_t
basic_mode(mode) ==
  AsUint16(CASE mode = "r" -> O_RDONLY
             [] mode = "rp" -> O_RDWR
             [] mode = "w" -> O_WRONLY \cup O_CREAT \cup O_TRUNC
             [] mode = "wp" -> O_RDWR \cup O_CREAT \cup O_TRUNC
             [] mode = "x" -> O_WRONLY \cup O_CREAT \cup O_EXCL
             [] mode = "xp" -> O_RDWR \cup O_CREAT \cup O_EXCL
             [] mode = "a" -> O_WRONLY \cup O_CREAT \cup O_APPEND
             [] mode = "ap" -> O_RDWR \cup O_CREAT \cup O_APPEND)
\* open_flags::default_flags
default_flags == O_CLOEXEC
\* open_flags(basic_mode mode): flags_(static_cast<std::uint32_t>(mode) | default_flags)
open_flags(mode) == basic_mode(mode) \cup default_flags
\* Mutation: set replaces the word by the flag.
set_Overwrites(f, flag) == flag
\* open_flags::set: flags_ |= flag
set(f, flag) == f \cup flag
\* open_flags::unset: flags_ &= ~flag
unset(f, flag) == f \ flag
\* open_flags::direct / sync / noatime / tmpfile
direct(f) == set(f, O_DIRECT)
sync(f) == set(f, O_SYNC)
noatime(f) == set(f, O_NOATIME)
tmpfile(f) == set(f, O_TMPFILE)
\* open_flags::has_flag: (flags_ & flag) == flag
has_flag(f, flag) == (f \cap flag) = flag
\* open_flags::flags
flags(f) == f
\* The flags a caller passes to set and unset.
FlagArgs == {O_WRONLY, O_RDWR, O_CREAT, O_EXCL, O_TRUNC, O_APPEND, O_SYNC, O_DIRECT,
             O_TMPFILE, O_NOATIME, O_CLOEXEC}

\* ------------------------------------------------- the operating system
Ok(k) == [ret |-> k, errno |-> "none"]
Fail(e) == [ret |-> -1, errno |-> e]

Interrupts == Len(SelectSeq(log, LAMBDA e : e.errno = "EINTR"))
MayInterrupt == IF Interrupts < MaxIntr THEN {Fail("EINTR")} ELSE {}

\* The file's bytes [pos, pos + k).
FileBytes(pos, k) == SubSeq(content, pos + 1, pos + k)
\* Mutation: the gap past the old end is left with whatever the device held.
StoreAt_GarbageHole(c, pos, chunk) ==
  IF chunk = <<>> THEN c
  ELSE [i \in 1..Max(Len(c), pos + Len(chunk)) |->
          IF i > pos /\ i <= pos + Len(chunk) THEN chunk[i - pos]
          ELSE IF i <= Len(c) THEN c[i] ELSE 1]
\* The file after `chunk` is stored at pos; a gap past the old end is a hole of zeros.
StoreAt(c, pos, chunk) ==
  IF chunk = <<>> THEN c
  ELSE [i \in 1..Max(Len(c), pos + Len(chunk)) |->
          IF i > pos /\ i <= pos + Len(chunk) THEN chunk[i - pos]
          ELSE IF i <= Len(c) THEN c[i] ELSE 0]

\* The descriptor is opened with the flags the program built: with O_APPEND
\* every ::write is made at the end of the file.
Appends == has_flag(flags(flags_), O_APPEND)
\* Mutation: every ::write is made at the end of the file.
WritePos_AlwaysAtEnd == Len(content)
\* Where ::write stores: at the file position, or at the end of the file.
WritePos == IF Appends THEN Len(content) ELSE cursor
\* Where ::pwrite stores: at the offset; under O_APPEND POSIX keeps the
\* offset and Linux appends.
PWritePos(offset) == IF Appends THEN {offset, Len(content)} ELSE {offset}

\* ::read(fd, buf, count) at file position pos: at least one byte while bytes
\* remain, 0 at end of file, or a failure.
sys_read(fd, count, pos) ==
  IF fd < 0 THEN {Fail("EBADF")}
  ELSE LET avail == Max(0, Len(content) - pos) IN
       {Ok(k) : k \in IF count = 0 \/ avail = 0 THEN {0} ELSE 1..Min(count, avail)}
         \cup {Fail("EIO")} \cup MayInterrupt

\* ::write(fd, buf, count) at file position pos: at least one byte while the
\* device has room; with no room the call stores nothing (0) or fails.
sys_write(fd, count, pos) ==
  IF fd < 0 THEN {Fail("EBADF")}
  ELSE LET room == Max(0, MaxFile - pos) IN
       (IF count = 0 THEN {Ok(0)}
        ELSE IF room = 0 THEN {Ok(0), Fail("ENOSPC")}
        ELSE {Ok(k) : k \in 1..Min(count, room)})
         \cup {Fail("EIO")} \cup MayInterrupt

\* ::fstat(fd, &st): st_size
sys_fstat(fd) == IF fd < 0 THEN {Fail("EBADF")} ELSE {Ok(Len(content))}

\* ::lseek(fd, offset, whence)
SeekTarget(offset, whence) ==
  CASE whence = "SEEK_SET" -> offset
    [] whence = "SEEK_CUR" -> cursor + offset
    [] whence = "SEEK_END" -> Len(content) + offset
sys_lseek(fd, offset, whence) ==
  IF fd < 0 THEN {Fail("EBADF")}
  ELSE IF SeekTarget(offset, whence) < 0 THEN {Fail("EINVAL")}
  ELSE {Ok(SeekTarget(offset, whence))}

\* ::ftruncate(fd, length)
sys_ftruncate(fd, length) ==
  IF fd < 0 THEN {Fail("EBADF")}
  ELSE IF length > MaxFile THEN {Fail("EFBIG")}
  ELSE {Ok(0)} \cup MayInterrupt

\* ::fsync(fd)
sys_fsync(fd) == IF fd < 0 THEN {Fail("EBADF")} ELSE {Ok(0), Fail("EIO"), Fail("EINTR")}

\* ::open(path, flags, mode): a new descriptor, or the OS refuses the path.
sys_open == {Ok(3), Fail("ENOENT"), Fail("EACCES"), Fail("EINTR")}

\* ------------------------------------------------------------- outcomes
\* kind: how the call ended; value: what a normal return carries ("void",
\* "count" in count, "vector" in bytes and count); count: also the partial
\* count of an end_of_file_error / insufficient_space_error; code: the error code.
NoOutcome == [kind |-> "none", value |-> "void", count |-> 0, bytes |-> <<>>, code |-> "none"]
\* return from a void function
ReturnsVoid == [kind |-> "ok", value |-> "void", count |-> 0, bytes |-> <<>>, code |-> "none"]
\* return of a count (or a position, a size)
Returns(c) == [kind |-> "ok", value |-> "count", count |-> c, bytes |-> <<>>, code |-> "none"]
\* return of a std::vector<std::byte>
ReturnsVector(v) ==
  [kind |-> "ok", value |-> "vector", count |-> v.size, bytes |-> Elements(v), code |-> "none"]
\* throw mfile_system_error{errno, ...}
mfile_system_error(e) ==
  [kind |-> "mfile_system_error", value |-> "void", count |-> 0, bytes |-> <<>>, code |-> e]
\* throw end_of_file_error{bytes_read, ...}
end_of_file_error(c) ==
  [kind |-> "end_of_file_error", value |-> "void", count |-> c, bytes |-> <<>>, code |-> "end_of_file"]
\* throw insufficient_space_error{bytes_written, ...}
insufficient_space_error(c) ==
  [kind |-> "insufficient_space_error", value |-> "void", count |-> c, bytes |-> <<>>,
   code |-> "insufficient_space"]
\* throw std::length_error (raised by the code, or by std::vector::resize past max_size())
length_error ==
  [kind |-> "length_error", value |-> "void", count |-> 0, bytes |-> <<>>, code |-> "none"]

\* --------------------------------------------- the code between syscalls
SequentialReads == {"read_once", "read", "read_exact", "read_size", "read_all"}
SequentialWrites == {"write_once", "write", "write_exact"}
OnceOps == {"read_once", "write_once"}

\* The locals of the running operation, as one value.
Local == [pc |-> pc, buffer |-> buffer, bytes_read |-> bytes_read,
          bytes_written |-> bytes_written, total |-> total, passes |-> passes,
          outcome |-> outcome]
\* The operation ends with `out`.
Finish(L, out) == [L EXCEPT !.pc = "done", !.outcome = out]

\* Mutation: the loop stops one byte early.
ReadLoopContinues_StopsEarly(n_read, size) == n_read + 1 < size
\* read(byte_view): while (bytes_read < data.size())
ReadLoopContinues(n_read, size) == n_read < size
\* Mutation: a one-byte transfer is taken for end of file.
IsEOF_OrOne(result) == result <= 1
\* read(byte_view): if (result == 0) break;
IsEOF(result) == result = 0
\* Mutation: the plain read treats a short count as an error.
ReadOutcome_ThrowsOnShort(n_read, size) ==
  IF n_read # size THEN end_of_file_error(n_read) ELSE Returns(n_read)
\* read(byte_view): return bytes_read;
ReadOutcome(n_read, size) == Returns(n_read)
\* Mutation: the error carries the requested size instead of the partial count.
ReadExactOutcome_CarriesRequested(n_read, size) ==
  IF n_read # size THEN end_of_file_error(size) ELSE ReturnsVoid
\* read_exact: if (bytes_read != data.size()) throw end_of_file_error{bytes_read, ...}
ReadExactOutcome(n_read, size) ==
  IF n_read # size THEN end_of_file_error(n_read) ELSE ReturnsVoid
\* Mutation: the buffer is returned untrimmed.
ReadSizeResult_NoTrim(v, n_read) == v
\* read(std::size_t): buffer.resize(read(buffer)); return buffer;
ReadSizeResult(v, n_read) == Resize(v, n_read)
\* read(): new_size after a pass that filled the buffer
GrowSize(size) ==
  IF size < resize_factor_limit THEN Wrap((size \div 2) * 3) ELSE SIZE_MAX
\* Mutation: a pass that transferred nothing is not taken for the end of the file.
PassIsShort_NeedsProgress(res, span_size) == 0 < res /\ res < span_size
\* read(): if (res < read_span.size())  -- the pass came back short: end of file
PassIsShort(res, span_size) == res < span_size

\* read(): the body of while (true) from `bytes_read += res` on, res being
\* the result of read(read_span) and span_size the size of read_span.
AfterPass(L, res, span_size) ==
  LET L1 == [L EXCEPT !.total = @ + res, !.passes = Append(@, res)] IN
  IF PassIsShort(res, span_size)
    THEN LET b == Resize(L1.buffer, L1.total) IN
         Finish([L1 EXCEPT !.buffer = b], ReturnsVector(b))
    ELSE LET new_size == GrowSize(L1.buffer.size) IN
         IF new_size > VectorMaxSize
           THEN Finish(L1, length_error)
           ELSE [L1 EXCEPT !.buffer = Resize(@, new_size), !.pc = "pass"]

\* The return of read(byte_view) with L.bytes_read, to the operation that called it.
ReadReturn(name, L, size) ==
  CASE name = "read" -> Finish(L, ReadOutcome(L.bytes_read, size))
    [] name = "read_exact" -> Finish(L, ReadExactOutcome(L.bytes_read, size))
    [] name = "read_size" ->
         LET b == ReadSizeResult(L.buffer, L.bytes_read) IN
         Finish([L EXCEPT !.buffer = b], ReturnsVector(b))
    [] name = "read_all" -> AfterPass(L, L.bytes_read, size)

\* Entry of read(byte_view) on a view of `size` bytes: up to the first read_once.
EnterRead(name, L, size) ==
  LET L0 == [L EXCEPT !.bytes_read = 0] IN
  IF ReadLoopContinues(0, size) THEN [L0 EXCEPT !.pc = "read_once"] ELSE ReadReturn(name, L0, size)

\* read_once returned k (the buffer of L holds the bytes): up to the next read_once.
AfterReadOnce(name, L, k, size) ==
  IF name \in OnceOps THEN Finish(L, Returns(k))
  ELSE IF IsEOF(k) THEN ReadReturn(name, L, size)
  ELSE LET L1 == [L EXCEPT !.bytes_read = @ + k] IN
       IF ReadLoopContinues(L1.bytes_read, size) THEN L1 ELSE ReadReturn(name, L1, size)

\* Mutation: every call of the primitive is given the whole view.
Suffix_WholeView(size, done) == [off |-> 0, size |-> size]
\* data.subspan(bytes_read, data.size() - bytes_read): the part of the view of
\* `size` bytes that is left after `done` bytes.
Suffix(size, done) == [off |-> done, size |-> size - done]

\* Mutation: an interruption is not retried.
ReadOnceRetries_Never(r) == FALSE
\* read_once: while (result == -1 && errno == EINTR)
ReadOnceRetries(r) == r.ret = -1 /\ r.errno = "EINTR"
\* Mutation: the result of ::read is taken for a count whatever it is.
ReadOnceFails_Never(result) == FALSE
\* read_once: if (result == -1) throw mfile_system_error{errno, "read failed"}
ReadOnceFails(result) == result = -1

\* write(cbyte_view): while (bytes_written < data.size())
WriteLoopContinues(n_written, size) == n_written < size
\* Mutation: the loop goes on after a call that stored nothing.
IsNoSpace_Never(result) == FALSE
\* write(cbyte_view): if (result == 0) break;   -- no space left on device
IsNoSpace(result) == result = 0
\* write(cbyte_view): return bytes_written;
WriteOutcome(n_written, size) == Returns(n_written)
\* Mutation: a short transfer is passed over in silence.
WriteExactOutcome_NeverThrows(n_written, size) == ReturnsVoid
\* Mutation: the error is raised on a full transfer too.
WriteExactOutcome_AlwaysThrows(n_written, size) == insufficient_space_error(n_written)
\* write_exact: if (bytes_written != data.size()) throw insufficient_space_error{bytes_written, ...}
WriteExactOutcome(n_written, size) ==
  IF n_written # size THEN insufficient_space_error(n_written) ELSE ReturnsVoid

\* The return of write(cbyte_view) with L.bytes_written, to the operation that called it.
WriteReturn(name, L, size) ==
  CASE name = "write" -> Finish(L, WriteOutcome(L.bytes_written, size))
    [] name = "write_exact" -> Finish(L, WriteExactOutcome(L.bytes_written, size))

\* Entry of write(cbyte_view) on a view of `size` bytes: up to the first write_once.
EnterWrite(name, L, size) ==
  LET L0 == [L EXCEPT !.bytes_written = 0] IN
  IF WriteLoopContinues(0, size) THEN [L0 EXCEPT !.pc = "write_once"]
  ELSE WriteReturn(name, L0, size)

\* write_once returned k: up to the next write_once.
AfterWriteOnce(name, L, k, size) ==
  IF name \in OnceOps THEN Finish(L, Returns(k))
  ELSE IF IsNoSpace(k) THEN WriteReturn(name, L, size)
  ELSE LET L1 == [L EXCEPT !.bytes_written = @ + k] IN
       IF WriteLoopContinues(L1.bytes_written, size) THEN L1 ELSE WriteReturn(name, L1, size)

\* write_once: while (result == -1 && errno == EINTR)
WriteOnceRetries(r) == r.ret = -1 /\ r.errno = "EINTR"
\* write_once: if (result == -1) throw mfile_system_error{errno, "write failed"}
WriteOnceFails(result) == result = -1
\* Mutation: every failure of ::ftruncate is retried.
TruncateRetries_Always(r) == r.ret = -1
\* truncate: while (result == -1 && errno == EINTR)
TruncateRetries(r) == r.ret = -1 /\ r.errno = "EINTR"

Assign(L) ==
  /\ pc' = L.pc
  /\ buffer' = L.buffer
  /\ bytes_read' = L.bytes_read
  /\ bytes_written' = L.bytes_written
  /\ total' = L.total
  /\ passes' = L.passes
  /\ outcome' = L.outcome

\* The locals at the call of an operation.
Fresh == [pc |-> "idle", buffer |-> EmptyVector, bytes_read |-> 0, bytes_written |-> 0,
          total |-> 0, passes |-> <<>>, outcome |-> NoOutcome]

\* read(): if (current_pos == file_size) return buffer;
AtEnd(current_pos, file_size) == current_pos = file_size
\* read(): remaining_size = file_size - current_pos   (std::uint64_t)
RemainingSize(file_size, current_pos) == Wrap(file_size - current_pos)
\* read(): if (!file_size)
SizeUnknown(file_size) == file_size = 0

\* read() from `if (!file_size)` up to the loop, current_pos being the result of
\* tell() (called only when the size is not 0).
ReadAllStart(file_size, current_pos) ==
  IF SizeUnknown(file_size)
    THEN [Fresh EXCEPT !.buffer = Resize(EmptyVector, init_buffer_size), !.pc = "pass"]
  ELSE IF AtEnd(current_pos, file_size)
    THEN Finish(Fresh, ReturnsVector(EmptyVector))
  ELSE LET remaining_size == RemainingSize(file_size, current_pos) IN
       IF remaining_size > SIZE_MAX \/ remaining_size > VectorMaxSize
         THEN Finish(Fresh, length_error)
         ELSE [Fresh EXCEPT !.buffer = Resize(EmptyVector, remaining_size), !.pc = "pass"]

\* What the build may do once read() takes the sub-view at bytes_read of a
\* shorter buffer (undefined behaviour): stop the process, fail the ::read on
\* the wrapped-around length, or return bytes_read bytes of any value.
UndefinedOutcomes(n) ==
  {[kind |-> "crash", value |-> "void", count |-> 0, bytes |-> <<>>, code |-> "none"],
   mfile_system_error("EFAULT")}
    \cup {ReturnsVector([size |-> n, data |-> d]) : d \in [1..n -> Byte]}

\* No result of a whole-file read is held.
NoHeld == [name |-> "none", start |-> 0, outcome |-> NoOutcome]
\* The result of the whole-file read `o`, with the position it started at.
Holds(o, out) ==
  [name |-> o.name, start |-> IF o.name = "pread_all" THEN o.off ELSE o.pos0, outcome |-> out]

NoCall == [name |-> "none", n |-> 0, payload |-> <<>>, off |-> 0, pos0 |-> 0, size0 |-> 0,
           after_short |-> FALSE]
\* The call `name` with its arguments, and the file as the call finds it.
Call(name, n, payload) ==
  [name |-> name, n |-> n, payload |-> payload, off |-> 0, pos0 |-> cursor,
   size0 |-> Len(content), after_short |-> short_read]

\* A saturating read on the cursor came back short: the cursor is at end of file.
CameBackShort(name, n, L) ==
  /\ L.pc = "done"
  /\ name = "read"
  /\ L.outcome.kind = "ok"
  /\ L.outcome.count < n

\* ----------------------------------------------------- the file objects
\* The file objects the program can hold, and the descriptors the OS hands out.
Obj == 1..MaxObjects
Fds == 3..(2 + MaxOpens)
\* std::string{}: the empty name.
EmptyName == [prefix |-> "", chars |-> 0]
\* make_tmpfile: prefix + "XXXXXX" after mkstemp put in the characters that
\* make the name unique (the descriptor's number stands for them).
GeneratedName(prefix, fd) == [prefix |-> prefix, chars |-> fd]
Prefixes == {"/tmp/prefix_"}
\* No object: the storage of a file object outside of its lifetime.
NoFile == [alive |-> FALSE, kind |-> "none", fd |-> invalid_file_handle, name |-> EmptyName]
\* file<file_handle>{}: handle_ is a unique_ptr holding weak_file_handle{} (fd_ = -1).
DefaultFile(kind) == [alive |-> TRUE, kind |-> kind, fd |-> invalid_file_handle, name |-> EmptyName]
\* A descriptor the OS has not handed out yet.
FreeFd == [state |-> "free", kind |-> "none", closes |-> 0, unlinks |-> 0, path |-> EmptyName]
NoOperation == [name |-> "none", dst |-> 0, src |-> 0, fd |-> invalid_file_handle, calls |-> <<>>]
NoObjects ==
  /\ files = [o \in Obj |-> NoFile]
  /\ fdtab = [f \in Fds |-> FreeFd]
  /\ last = NoOperation

\* weak_file_handle::operator bool: fd_ >= 0
IsValid(fd) == fd >= 0
\* unique_ptr: get() != pointer(), with weak_file_handle's operator!=
NotNull(fd) == fd # invalid_file_handle
\* Mutation: the deleter closes nothing.
fd_deleter_NeverCloses(fd) == <<>>
\* detail::fd_deleter::operator(): the system calls it makes.
fd_deleter(fd) == IF IsValid(fd) THEN <<[call |-> "close", fd |-> fd, path |-> EmptyName]>> ELSE <<>>
\* detail::tmpfile_deleter::operator(): the system calls it makes.
tmpfile_deleter(name_, fd) ==
  IF IsValid(fd) THEN <<[call |-> "unlink", fd |-> invalid_file_handle, path |-> name_],
                        [call |-> "close", fd |-> fd, path |-> EmptyName]>>
  ELSE <<>>
\* unique_ptr::~unique_ptr / reset: the deleter runs on a pointer that is not null.
Dispose(f) ==
  IF ~NotNull(f.fd) THEN <<>>
  ELSE IF f.kind = "tmp" THEN tmpfile_deleter(f.name, f.fd) ELSE fd_deleter(f.fd)
\* The value a std::string is left with when it is moved from: valid but unspecified.
MovedFromName(name) == {name, EmptyName}
\* unique_ptr after release(), its deleter moved from.
MovedFrom(f) == {[f EXCEPT !.fd = invalid_file_handle, !.name = n] : n \in MovedFromName(f.name)}

\* The OS after one call: ::close(fd) or unlink(path).
AfterCall(tab, c) ==
  [f \in Fds |->
     IF c.call = "close" /\ c.fd = f
       THEN [tab[f] EXCEPT !.state = "closed", !.closes = @ + 1]
     ELSE IF c.call = "unlink" /\ c.path = tab[f].path /\ tab[f].kind = "tmp"
       THEN [tab[f] EXCEPT !.unlinks = @ + 1]
     ELSE tab[f]]
\* The OS after the calls of `cs`, in order.
RECURSIVE AfterCalls(_, _)
AfterCalls(tab, cs) == IF cs = <<>> THEN tab ELSE AfterCalls(AfterCall(tab, Head(cs)), Tail(cs))
\* The descriptor ::open / mkstemp returns next, if the process may open one more.
FreshFds == {f \in Fds : fdtab[f].state = "free" /\ \A g \in Fds : g < f => fdtab[g].state # "free"}

\* ------------------------------------------------------------ operations
IdleIO ==
  /\ handle = invalid_file_handle
  /\ content = <<>>
  /\ cursor = 0
  /\ pc = "idle"
  /\ op = NoCall
  /\ data = [base |-> 0, size |-> 0]
  /\ buffer = EmptyVector
  /\ bytes_read = 0
  /\ bytes_written = 0
  /\ total = 0
  /\ passes = <<>>
  /\ log = <<>>
  /\ outcome = NoOutcome
  /\ short_read = FALSE
  /\ held = NoHeld

Init ==
  /\ IdleIO
  /\ NoObjects
  /\ flags_ = open_flags("wp")

\* Mutation: the result of ::open is not checked.
OpenFails_Never(fd) == FALSE
\* open: if (fd == -1) throw mfile_system_error{errno, ...}
OpenFails(fd) == fd = -1

\* mfile::open / make_tmpfile: a new, empty file, or the OS refuses.
Open ==
  /\ pc = "idle"
  /\ handle = invalid_file_handle
  /\ \E r \in sys_open :
       /\ op' = Call("open", 0, <<>>)
       /\ log' = <<[call |-> "open", fd |-> handle, count |-> 0, pos |-> 0, bufoff |-> 0,
                    ret |-> r.ret, errno |-> r.errno]>>
       /\ IF OpenFails(r.ret)
            THEN /\ Assign(Finish(Fresh, mfile_system_error(r.errno)))
                 /\ UNCHANGED <<handle, content, cursor>>
            ELSE /\ Assign(Finish(Fresh, ReturnsVoid))
                 /\ handle' = r.ret
                 /\ content' = <<>>
                 /\ cursor' = 0
       /\ data' = [base |-> 0, size |-> 0]
       /\ short_read' = FALSE
  /\ held' = NoHeld
  /\ UNCHANGED <<objvars, flags_>>

\* A call of read_once(data), read(data) or read_exact(data) with a buffer of n bytes,
\* or of read(n).
CallRead(name, n) ==
  /\ pc = "idle"
  /\ op' = Call(name, n, <<>>)
  /\ log' = <<>>
  /\ data' = [base |-> 0, size |-> n]
  /\ LET L0 == [Fresh EXCEPT !.buffer = [size |-> n, data |-> <<>>]]
         L == IF name \in OnceOps THEN [L0 EXCEPT !.pc = "read_once"] ELSE EnterRead(name, L0, n)
     IN /\ Assign(L)
        /\ short_read' = (short_read \/ CameBackShort(name, n, L))
  /\ UNCHANGED <<handle, content, cursor>>
  /\ held' = NoHeld
  /\ UNCHANGED <<objvars, flags_>>

CallReadOnce == \E n \in 0..MaxBuf : CallRead("read_once", n)
CallReadLoop == \E n \in 0..MaxBuf : CallRead("read", n)
CallReadExact == \E n \in 0..MaxBuf : CallRead("read_exact", n)
CallReadSize == \E n \in 0..MaxBuf : CallRead("read_size", n)

\* One ::read of read_once and the code up to the next system call.
ReadOnce ==
  /\ pc = "read_once"
  /\ LET count == Suffix(data.size, bytes_read).size
         bufoff == data.base + Suffix(data.size, bytes_read).off
     IN \E r \in sys_read(handle, count, cursor) :
          /\ log' = Append(log, [call |-> "read", fd |-> handle, count |-> count,
                                  pos |-> cursor, bufoff |-> bufoff,
                                  ret |-> r.ret, errno |-> r.errno])
          /\ IF ReadOnceRetries(r)
               THEN UNCHANGED <<cursor, pc, buffer, bytes_read, bytes_written, total,
                                passes, outcome, short_read>>
               ELSE IF ReadOnceFails(r.ret)
                 THEN /\ Assign(Finish(Local, mfile_system_error(r.errno)))
                      /\ UNCHANGED <<cursor, short_read>>
                 ELSE /\ cursor' = cursor + r.ret
                      /\ LET L == AfterReadOnce(op.name,
                                     [Local EXCEPT !.buffer =
                                        Store(@, bufoff, FileBytes(cursor, r.ret))],
                                     r.ret, data.size)
                         IN /\ Assign(L)
                            /\ short_read' = (short_read \/ CameBackShort(op.name, op.n, L))
  /\ UNCHANGED <<handle, content, op, data>>
  /\ UNCHANGED <<held, objvars, flags_>>

\* A call of read(): size(), tell(), the first resize.
CallReadAll ==
  /\ pc = "idle"
  /\ op' = Call("read_all", 0, <<>>)
  /\ data' = [base |-> 0, size |-> 0]
  /\ \E st \in sys_fstat(handle), tl \in sys_lseek(handle, 0, "SEEK_CUR") :
       LET e1 == [call |-> "fstat", fd |-> handle, count |-> 0, pos |-> cursor, bufoff |-> 0,
                  ret |-> st.ret, errno |-> st.errno]
           e2 == [call |-> "lseek", fd |-> handle, count |-> 0, pos |-> cursor, bufoff |-> 0,
                  ret |-> tl.ret, errno |-> tl.errno]
       IN IF st.ret = -1
            THEN /\ log' = <<e1>>
                 /\ Assign(Finish(Fresh, mfile_system_error(st.errno)))
          ELSE IF SizeUnknown(st.ret)
            THEN /\ log' = <<e1>>
                 /\ Assign(ReadAllStart(st.ret, 0))
          ELSE IF tl.ret = -1
            THEN /\ log' = <<e1, e2>>
                 /\ Assign(Finish(Fresh, mfile_system_error(tl.errno)))
          ELSE /\ log' = <<e1, e2>>
               /\ Assign(ReadAllStart(st.ret, tl.ret))
  /\ UNCHANGED <<handle, content, cursor, short_read>>
  /\ UNCHANGED <<held, objvars, flags_>>

\* read(): read_span = byte_view{buffer}.subspan(bytes_read); res = read(read_span),
\* up to the first ::read of the pass (or, for an empty read_span, through the pass).
Pass ==
  /\ pc = "pass"
  /\ Len(passes) < MaxPasses
  /\ IF total > buffer.size
       THEN /\ pc' = "undefined"
            /\ UNCHANGED <<data, buffer, bytes_read, bytes_written, total, passes, outcome>>
       ELSE LET read_span == [base |-> total, size |-> buffer.size - total] IN
            /\ data' = read_span
            /\ Assign(EnterRead("read_all", Local, read_span.size))
  /\ UNCHANGED <<handle, content, cursor, op, log, short_read>>
  /\ UNCHANGED <<held, objvars, flags_>>

\* The sub-view past the end of the buffer was taken.
Undefined ==
  /\ pc = "undefined"
  /\ \E out \in UndefinedOutcomes(total) : Assign(Finish(Local, out))
  /\ UNCHANGED <<handle, content, cursor, op, data, log, short_read>>
  /\ UNCHANGED <<held, objvars, flags_>>

\* A call of write_once(data), write(data) or write_exact(data).
CallWrite(name, payload) ==
  /\ pc = "idle"
  /\ op' = Call(name, Len(payload), payload)
  /\ log' = <<>>
  /\ data' = [base |-> 0, size |-> Len(payload)]
  /\ Assign(IF name \in OnceOps THEN [Fresh EXCEPT !.pc = "write_once"]
            ELSE EnterWrite(name, Fresh, Len(payload)))
  /\ short_read' = FALSE
  /\ UNCHANGED <<handle, content, cursor>>
  /\ held' = NoHeld
  /\ UNCHANGED <<objvars, flags_>>

CallWriteOnce == \E payload \in Payloads : CallWrite("write_once", payload)
CallWriteLoop == \E payload \in Payloads : CallWrite("write", payload)
CallWriteExact == \E payload \in Payloads : CallWrite("write_exact", payload)

\* One ::write of write_once and the code up to the next system call.
WriteOnce ==
  /\ pc = "write_once"
  /\ LET count == Suffix(data.size, bytes_written).size
         bufoff == data.base + Suffix(data.size, bytes_written).off
         at == WritePos
     IN \E r \in sys_write(handle, count, at) :
          /\ log' = Append(log, [call |-> "write", fd |-> handle, count |-> count,
                                  pos |-> at, bufoff |-> bufoff,
                                  ret |-> r.ret, errno |-> r.errno])
          /\ IF WriteOnceRetries(r)
               THEN UNCHANGED <<content, cursor, pc, buffer, bytes_read, bytes_written,
                                total, passes, outcome>>
               ELSE IF WriteOnceFails(r.ret)
                 THEN /\ Assign(Finish(Local, mfile_system_error(r.errno)))
                      /\ UNCHANGED <<content, cursor>>
                 ELSE /\ content' = StoreAt(content, at,
                                            SubSeq(op.payload, bufoff + 1, bufoff + r.ret))
                      /\ cursor' = (IF r.ret > 0 THEN at + r.ret ELSE cursor)
                      /\ Assign(AfterWriteOnce(op.name, Local, r.ret, data.size))
  /\ UNCHANGED <<handle, op, data, short_read>>
  /\ UNCHANGED <<held, objvars, flags_>>

\* seek(offset, whence)
Seek ==
  /\ pc = "idle"
  /\ \E offset \in -1..(MaxFile + 1), whence \in {"SEEK_SET", "SEEK_CUR", "SEEK_END"} :
       /\ SeekTarget(offset, whence) <= MaxFile + 1
       /\ op' = [Call("seek", offset, <<>>) EXCEPT !.payload = <<whence>>]
       /\ \E r \in sys_lseek(handle, offset, whence) :
            /\ log' = <<[call |-> "lseek", fd |-> handle, count |-> offset, pos |-> cursor,
                         bufoff |-> 0, ret |-> r.ret, errno |-> r.errno]>>
            /\ IF r.ret = -1
                 THEN /\ Assign(Finish(Fresh, mfile_system_error(r.errno)))
                      /\ cursor' = cursor
                 ELSE /\ Assign(Finish(Fresh, Returns(r.ret)))
                      /\ cursor' = r.ret
  /\ data' = [base |-> 0, size |-> 0]
  /\ short_read' = FALSE
  /\ UNCHANGED <<handle, content>>
  /\ UNCHANGED <<held, objvars, flags_>>

\* tell()
Tell ==
  /\ pc = "idle"
  /\ op' = Call("tell", 0, <<>>)
  /\ \E r \in sys_lseek(handle, 0, "SEEK_CUR") :
       /\ log' = <<[call |-> "lseek", fd |-> handle, count |-> 0, pos |-> cursor,
                    bufoff |-> 0, ret |-> r.ret, errno |-> r.errno]>>
       /\ Assign(Finish(Fresh, IF r.ret = -1 THEN mfile_system_error(r.errno)
                                ELSE Returns(r.ret)))
  /\ data' = [base |-> 0, size |-> 0]
  /\ UNCHANGED <<handle, content, cursor, short_read>>
  /\ UNCHANGED <<held, objvars, flags_>>

\* stat(), size(), empty(): one ::fstat; size() is st_size, empty() is size() == 0.
Stat ==
  /\ pc = "idle"
  /\ \E name \in {"stat", "size", "empty"} :
       /\ op' = Call(name, 0, <<>>)
       /\ \E r \in sys_fstat(handle) :
            /\ log' = <<[call |-> "fstat", fd |-> handle, count |-> 0, pos |-> cursor,
                         bufoff |-> 0, ret |-> r.ret, errno |-> r.errno]>>
            /\ Assign(Finish(Fresh,
                 IF r.ret = -1 THEN mfile_system_error(r.errno)
                 ELSE IF name = "empty" THEN Returns(IF r.ret = 0 THEN 1 ELSE 0)
                 ELSE Returns(r.ret)))
  /\ data' = [base |-> 0, size |-> 0]
  /\ UNCHANGED <<handle, content, cursor, short_read>>
  /\ UNCHANGED <<held, objvars, flags_>>

\* A call of truncate(size).
CallTruncate ==
  /\ pc = "idle"
  /\ \E size \in 0..(MaxFile + 1) : op' = Call("truncate", size, <<>>)
  /\ log' = <<>>
  /\ data' = [base |-> 0, size |-> 0]
  /\ Assign([Fresh EXCEPT !.pc = "truncate"])
  /\ short_read' = FALSE
  /\ UNCHANGED <<handle, content, cursor>>
  /\ held' = NoHeld
  /\ UNCHANGED <<objvars, flags_>>

\* One ::ftruncate of truncate.
Truncate ==
  /\ pc = "truncate"
  /\ \E r \in sys_ftruncate(handle, op.n) :
       /\ log' = Append(log, [call |-> "ftruncate", fd |-> handle, count |-> op.n,
                               pos |-> cursor, bufoff |-> 0, ret |-> r.ret, errno |-> r.errno])
       /\ IF TruncateRetries(r)
            THEN UNCHANGED <<content, pc, buffer, bytes_read, bytes_written, total, passes,
                             outcome>>
            ELSE IF r.ret = -1
              THEN /\ Assign(Finish(Local, mfile_system_error(r.errno)))
                   /\ content' = content
              ELSE /\ Assign(Finish(Local, ReturnsVoid))
                   /\ content' = IF op.n <= Len(content) THEN SubSeq(content, 1, op.n)
                                 ELSE content \o Zeros(op.n - Len(content))
  /\ UNCHANGED <<handle, cursor, op, data, short_read>>
  /\ UNCHANGED <<held, objvars, flags_>>

\* sync()
Sync ==
  /\ pc = "idle"
  /\ op' = Call("sync", 0, <<>>)
  /\ \E r \in sys_fsync(handle) :
       /\ log' = <<[call |-> "fsync", fd |-> handle, count |-> 0, pos |-> cursor,
                    bufoff |-> 0, ret |-> r.ret, errno |-> r.errno]>>
       /\ Assign(Finish(Fresh, IF r.ret = -1 THEN mfile_system_error(r.errno)
                                ELSE ReturnsVoid))
  /\ data' = [base |-> 0, size |-> 0]
  /\ UNCHANGED <<handle, content, cursor, short_read>>
  /\ held' = NoHeld
  /\ UNCHANGED <<objvars, flags_>>

\* ------------------------------------------ the positional operations
\* pread_once, pwrite_once, pread, pwrite, pread_exact, pwrite_exact,
\* pread(size, offset) and pread(offset) are specified (sections 3, 4.1-4.5)
\* as the same layers over ::pread / ::pwrite at an explicit offset.
PositionalReads == {"pread_once", "pread", "pread_exact", "pread_size", "pread_all"}
PositionalWrites == {"pwrite_once", "pwrite", "pwrite_exact"}
\* The largest offset the platform represents (the maximum signed value).
OFF_MAX == 2^(WordBits - 1) - 1
Offsets == 0..(MaxFile + 1) \cup {SIZE_MAX}
\* The sequential operation of the same tier.
Tier(name) ==
  CASE name = "pread_once" -> "read_once"
    [] name = "pread" -> "read"
    [] name = "pread_exact" -> "read_exact"
    [] name = "pread_size" -> "read_size"
    [] name = "pwrite_once" -> "write_once"
    [] name = "pwrite" -> "write"
    [] name = "pwrite_exact" -> "write_exact"
    [] OTHER -> name

\* Mutation: every offset is passed on to the system call.
OffsetInvalid_Never(offset) == FALSE
\* Section 3: an offset above the maximum signed 64-bit value is an input error.
OffsetInvalid(offset) == offset > OFF_MAX
\* Mutation: the offset is not advanced between the calls of one loop.
POffset_Fixed(offset, transferred) == offset
\* Mutation: the transfer is issued at the cursor.
POffset_FromCursor(offset, transferred) == cursor + transferred
\* Section 4.2: each call of the primitive is issued at the offset given,
\* advanced by the bytes already transferred.
POffset(offset, transferred) == offset + transferred
\* Section 4.4 step 3: grow the capacity by a factor of 1.5.
PGrowSize(size) == size + size \div 2

\* Section 4.4, after a pass of the saturating loop over the unread part of
\* the buffer: with a known size the pass is final; with an unknown size a
\* full pass grows the buffer and a short one ends the read.
PAfterPass(L, res, span_size) ==
  LET L1 == [L EXCEPT !.total = @ + res, !.passes = Append(@, res)]
      b == Resize(L1.buffer, L1.total)
  IN IF op.size0 # 0 \/ res < span_size
       THEN Finish([L1 EXCEPT !.buffer = b], ReturnsVector(b))
     ELSE IF PGrowSize(L1.buffer.size) > VectorMaxSize
       THEN Finish(L1, length_error)
     ELSE [L1 EXCEPT !.buffer = Resize(@, PGrowSize(L1.buffer.size)), !.pc = "ppass"]

\* Section 4.4 steps 1, 2 and 4: the buffer the read starts with.
PReadAllStart(file_size, offset) ==
  IF file_size = 0
    THEN [Fresh EXCEPT !.buffer = Resize(EmptyVector, init_buffer_size), !.pc = "ppass"]
  ELSE IF offset >= file_size
    THEN Finish(Fresh, ReturnsVector(EmptyVector))
  ELSE IF file_size - offset > VectorMaxSize
    THEN Finish(Fresh, length_error)
  ELSE [Fresh EXCEPT !.buffer = Resize(EmptyVector, file_size - offset), !.pc = "ppass"]

PReadReturn(name, L, size) ==
  IF name = "pread_all" THEN PAfterPass(L, L.bytes_read, size)
  ELSE ReadReturn(Tier(name), L, size)

PEnterRead(name, L, size) ==
  LET L0 == [L EXCEPT !.bytes_read = 0] IN
  IF ReadLoopContinues(0, size) THEN [L0 EXCEPT !.pc = "pread_once"]
  ELSE PReadReturn(name, L0, size)

PAfterReadOnce(name, L, k, size) ==
  IF name = "pread_once" THEN Finish(L, Returns(k))
  ELSE IF IsEOF(k) THEN PReadReturn(name, L, size)
  ELSE LET L1 == [L EXCEPT !.bytes_read = @ + k] IN
       IF ReadLoopContinues(L1.bytes_read, size) THEN L1 ELSE PReadReturn(name, L1, size)

PEnterWrite(name, L, size) ==
  LET L0 == [L EXCEPT !.bytes_written = 0] IN
  IF WriteLoopContinues(0, size) THEN [L0 EXCEPT !.pc = "pwrite_once"]
  ELSE WriteReturn(Tier(name), L0, size)

PAfterWriteOnce(name, L, k, size) ==
  LET L1 == AfterWriteOnce(Tier(name), L, k, size) IN
  IF L1.pc = "write_once" THEN [L1 EXCEPT !.pc = "pwrite_once"] ELSE L1

\* A call of pread_once(data, offset), pread(data, offset), pread_exact(data, offset)
\* with a buffer of n bytes, or of pread(n, offset).
CallPRead ==
  /\ pc = "idle"
  /\ \E name \in PositionalReads \ {"pread_all"}, n \in 0..MaxBuf, offset \in Offsets :
       /\ op' = [Call(name, n, <<>>) EXCEPT !.off = offset]
       /\ data' = [base |-> 0, size |-> n]
       /\ LET L0 == [Fresh EXCEPT !.buffer = [size |-> n, data |-> <<>>]] IN
          Assign(IF OffsetInvalid(offset) THEN Finish(L0, mfile_system_error("EINVAL"))
                 ELSE IF name = "pread_once" THEN [L0 EXCEPT !.pc = "pread_once"]
                 ELSE PEnterRead(name, L0, n))
  /\ log' = <<>>
  /\ UNCHANGED <<handle, content, cursor, short_read>>
  /\ held' = NoHeld
  /\ UNCHANGED <<objvars, flags_>>

\* A call of pread(offset).
CallPReadAll ==
  /\ pc = "idle"
  /\ data' = [base |-> 0, size |-> 0]
  /\ \E offset \in Offsets, st \in sys_fstat(handle) :
       /\ op' = [Call("pread_all", 0, <<>>) EXCEPT !.off = offset]
       /\ IF OffsetInvalid(offset)
            THEN /\ log' = <<>>
                 /\ Assign(Finish(Fresh, mfile_system_error("EINVAL")))
            ELSE /\ log' = <<[call |-> "fstat", fd |-> handle, count |-> 0, pos |-> cursor,
                              bufoff |-> 0, ret |-> st.ret, errno |-> st.errno]>>
                 /\ Assign(IF st.ret = -1 THEN Finish(Fresh, mfile_system_error(st.errno))
                           ELSE PReadAllStart(st.ret, offset))
  /\ UNCHANGED <<handle, content, cursor, short_read>>
  /\ UNCHANGED <<held, objvars, flags_>>

\* pread(offset): one pass of the saturating loop over the unread part of the buffer.
PPass ==
  /\ pc = "ppass"
  /\ Len(passes) < MaxPasses
  /\ LET read_span == [base |-> total, size |-> buffer.size - total] IN
       /\ data' = read_span
       /\ Assign(PEnterRead("pread_all", Local, read_span.size))
  /\ UNCHANGED <<handle, content, cursor, op, log, short_read>>
  /\ UNCHANGED <<held, objvars, flags_>>

\* One ::pread of pread_once and the code up to the next system call.
PReadOnce ==
  /\ pc = "pread_once"
  /\ LET count == Suffix(data.size, bytes_read).size
         bufoff == data.base + Suffix(data.size, bytes_read).off
         offset == POffset(op.off, total + bytes_read)
     IN \E r \in sys_read(handle, count, offset) :
          /\ log' = Append(log, [call |-> "pread", fd |-> handle, count |-> count,
                                  pos |-> offset, bufoff |-> bufoff,
                                  ret |-> r.ret, errno |-> r.errno])
          /\ IF ReadOnceRetries(r)
               THEN UNCHANGED <<pc, buffer, bytes_read, bytes_written, total, passes, outcome>>
               ELSE IF ReadOnceFails(r.ret)
                 THEN Assign(Finish(Local, mfile_system_error(r.errno)))
                 ELSE Assign(PAfterReadOnce(op.name,
                               [Local EXCEPT !.buffer = Store(@, bufoff, FileBytes(offset, r.ret))],
                               r.ret, data.size))
  /\ UNCHANGED <<handle, content, cursor, op, data, short_read>>
  /\ UNCHANGED <<held, objvars, flags_>>

\* A call of pwrite_once(data, offset), pwrite(data, offset) or pwrite_exact(data, offset).
CallPWrite ==
  /\ pc = "idle"
  /\ \E name \in PositionalWrites, payload \in Payloads, offset \in Offsets :
       /\ op' = [Call(name, Len(payload), payload) EXCEPT !.off = offset]
       /\ data' = [base |-> 0, size |-> Len(payload)]
       /\ Assign(IF OffsetInvalid(offset) THEN Finish(Fresh, mfile_system_error("EINVAL"))
                 ELSE IF name = "pwrite_once" THEN [Fresh EXCEPT !.pc = "pwrite_once"]
                 ELSE PEnterWrite(name, Fresh, Len(payload)))
  /\ log' = <<>>
  /\ short_read' = FALSE
  /\ UNCHANGED <<handle, content, cursor>>
  /\ held' = NoHeld
  /\ UNCHANGED <<objvars, flags_>>

\* One ::pwrite of pwrite_once and the code up to the next system call.
PWriteOnce ==
  /\ pc = "pwrite_once"
  /\ LET count == Suffix(data.size, bytes_written).size
         bufoff == data.base + Suffix(data.size, bytes_written).off
         offset == POffset(op.off, bytes_written)
     IN \E at \in PWritePos(offset) : \E r \in sys_write(handle, count, at) :
          /\ log' = Append(log, [call |-> "pwrite", fd |-> handle, count |-> count,
                                  pos |-> offset, bufoff |-> bufoff,
                                  ret |-> r.ret, errno |-> r.errno])
          /\ IF WriteOnceRetries(r)
               THEN UNCHANGED <<content, pc, buffer, bytes_read, bytes_written, total, passes,
                                outcome>>
               ELSE IF WriteOnceFails(r.ret)
                 THEN /\ Assign(Finish(Local, mfile_system_error(r.errno)))
                      /\ content' = content
                 ELSE /\ content' = StoreAt(content, at,
                                            SubSeq(op.payload, bufoff + 1, bufoff + r.ret))
                      /\ Assign(PAfterWriteOnce(op.name, Local, r.ret, data.size))
  /\ UNCHANGED <<handle, cursor, op, data, short_read>>
  /\ UNCHANGED <<held, objvars, flags_>>

\* The caller takes the result; the next call starts afresh.
Return ==
  /\ pc = "done"
  /\ pc' = "idle"
  /\ op' = NoCall
  /\ data' = [base |-> 0, size |-> 0]
  /\ buffer' = EmptyVector
  /\ bytes_read' = 0
  /\ bytes_written' = 0
  /\ total' = 0
  /\ passes' = <<>>
  /\ log' = <<>>
  /\ outcome' = NoOutcome
  /\ UNCHANGED <<handle, content, cursor, short_read>>
  /\ held' = IF op.name \in {"read_all", "pread_all"} THEN Holds(op, outcome) ELSE held
  /\ UNCHANGED <<objvars, flags_>>


Next ==
  \/ Open
  \/ CallReadOnce
  \/ CallReadLoop
  \/ CallReadExact
  \/ CallReadSize
  \/ CallReadAll
  \/ ReadOnce
  \/ Pass
  \/ Undefined
  \/ CallWriteOnce
  \/ CallWriteLoop
  \/ CallWriteExact
  \/ WriteOnce
  \/ Seek
  \/ Tell
  \/ Stat
  \/ CallTruncate
  \/ Truncate
  \/ Sync
  \/ CallPRead
  \/ CallPReadAll
  \/ PPass
  \/ PReadOnce
  \/ CallPWrite
  \/ PWriteOnce
  \/ Return

Spec == Init /\ [][Next]_vars

\* The same program with its file opened by wp() or by ap() (O_APPEND).
ModesInit ==
  /\ IdleIO
  /\ NoObjects
  /\ flags_ \in {open_flags("wp"), open_flags("ap")}
Modes == ModesInit /\ [][Next]_vars

\* --------------------------------------- the lifetime of file objects
\* One operation on file objects: the objects after it, the system calls it
\* made (applied to the descriptors of `tab`), and its record.
ObjectStep(name, dst, src, fd, calls, newfiles, tab) ==
  /\ files' = newfiles
  /\ fdtab' = AfterCalls(tab, calls)
  /\ last' = [name |-> name, dst |-> dst, src |-> src, fd |-> fd, calls |-> calls]
  /\ UNCHANGED <<iovars, flags_>>

\* file<Handle>{}: the default constructor.
Construct ==
  \E o \in Obj, kind \in {"fd", "tmp"} :
    /\ ~files[o].alive
    /\ ObjectStep("construct", o, o, invalid_file_handle, <<>>,
                  [files EXCEPT ![o] = DefaultFile(kind)], fdtab)

\* mfile::open: ::open gives a new descriptor, owned by the file returned, or
\* fails and no file is made.
OpenFile ==
  \E o \in Obj :
    /\ ~files[o].alive
    /\ \/ ObjectStep("open_failed", o, o, invalid_file_handle, <<>>, files, fdtab)
       \/ \E f \in FreshFds :
            ObjectStep("open", o, o, f, <<>>,
                       [files EXCEPT ![o] = [alive |-> TRUE, kind |-> "fd", fd |-> f,
                                             name |-> EmptyName]],
                       [fdtab EXCEPT ![f] = [FreeFd EXCEPT !.state = "open", !.kind = "fd"]])

\* mfile::make_tmpfile: mkstemp makes and opens the entry prefix + 6
\* characters; the handle's deleter keeps that name.
MakeTmpfile ==
  \E o \in Obj, prefix \in Prefixes :
    /\ ~files[o].alive
    /\ \/ ObjectStep("make_tmpfile_failed", o, o, invalid_file_handle, <<>>, files, fdtab)
       \/ \E f \in FreshFds :
            LET template_name == GeneratedName(prefix, f) IN
            ObjectStep("make_tmpfile", o, o, f, <<>>,
                       [files EXCEPT ![o] = [alive |-> TRUE, kind |-> "tmp", fd |-> f,
                                             name |-> template_name]],
                       [fdtab EXCEPT ![f] = [FreeFd EXCEPT !.state = "open", !.kind = "tmp",
                                                           !.path = template_name]])

\* file(file&&): the new object takes the handle, the source is left null.
MoveConstruct ==
  \E o \in Obj, s \in Obj :
    /\ ~files[o].alive /\ files[s].alive
    /\ \E m \in MovedFrom(files[s]) :
         ObjectStep("move_construct", o, s, invalid_file_handle, <<>>,
                    [files EXCEPT ![o] = files[s], ![s] = m], fdtab)

\* operator=(file&&): unique_ptr's reset(u.release()), then the deleter is
\* move-assigned. On itself the pointer is kept and the deleter is assigned
\* from itself: its name is left valid but unspecified.
MoveAssign ==
  \E o \in Obj, s \in Obj :
    /\ files[o].alive /\ files[s].alive /\ files[o].kind = files[s].kind
    /\ IF o = s
         THEN \E n \in MovedFromName(files[o].name) :
                ObjectStep("move_assign", o, s, files[o].fd, <<>>,
                           [files EXCEPT ![o].name = n], fdtab)
         ELSE \E m \in MovedFrom(files[s]) :
                ObjectStep("move_assign", o, s, files[o].fd, Dispose(files[o]),
                           [files EXCEPT ![o] = files[s], ![s] = m], fdtab)

\* file::swap: the two handles (pointer and deleter) change places.
SwapFiles ==
  \E o \in Obj, s \in Obj :
    /\ files[o].alive /\ files[s].alive /\ files[o].kind = files[s].kind
    /\ ObjectStep("swap", o, s, files[o].fd, <<>>,
                  [files EXCEPT ![o] = files[s], ![s] = files[o]], fdtab)

\* ~file(): unique_ptr's destructor runs the deleter on a handle that is not null.
Destroy ==
  \E o \in Obj :
    /\ files[o].alive
    /\ ObjectStep("destroy", o, o, files[o].fd, Dispose(files[o]),
                  [files EXCEPT ![o] = NoFile], fdtab)

LifetimeNext ==
  \/ Construct
  \/ OpenFile
  \/ MakeTmpfile
  \/ MoveConstruct
  \/ MoveAssign
  \/ SwapFiles
  \/ Destroy

Lifetime == Init /\ [][LifetimeNext]_vars

\* ------------------------------------------- building open_flags values
\* One builder operation on the open_flags value.
Builder(f) ==
  /\ flags_' = f
  /\ UNCHANGED <<iovars, objvars>>
FlagDirect == Builder(direct(flags_))
FlagSync == Builder(sync(flags_))
FlagNoatime == Builder(noatime(flags_))
FlagTmpfile == Builder(tmpfile(flags_))
FlagSet == \E flag \in FlagArgs : Builder(set(flags_, flag))
FlagUnset == \E flag \in FlagArgs : Builder(unset(flags_, flag))

\* The value one of r(), w(), x(), a(), rp(), wp(), xp(), ap() returns.
FlagsInit ==
  /\ IdleIO
  /\ NoObjects
  /\ flags_ \in {open_flags(mode) : mode \in BasicModes}

FlagsNext ==
  \/ FlagDirect
  \/ FlagSync
  \/ FlagNoatime
  \/ FlagTmpfile
  \/ FlagSet
  \/ FlagUnset

OpenFlags == FlagsInit /\ [][FlagsNext]_vars

\* ------------------------------------------------------------ properties
Done == pc = "done"
TransferCalls == {"read", "pread", "write", "pwrite"}
\* The counts of the transfers that succeeded, in order.
RECURSIVE Transferred(_)
Transferred(l) ==
  IF l = <<>> THEN 0
  ELSE (IF Head(l).call \in TransferCalls /\ Head(l).ret >= 0 THEN Head(l).ret ELSE 0)
         + Transferred(Tail(l))
\* The system calls the code reissues when a signal interrupts them.
RetriedCalls == {"read", "pread", "write", "pwrite", "ftruncate"}
\* A system call failed for good (not an interruption that is retried).
Failed(e) == e.ret = -1 /\ ~(e.errno = "EINTR" /\ e.call \in RetriedCalls)
NoFailure == \A i \in 1..Len(log) : ~Failed(log[i])
LastCall == log[Len(log)]

SaturatingOps == {"read", "write", "pread", "pwrite"}
ExactReads == {"read_exact", "pread_exact"}
ExactWrites == {"write_exact", "pwrite_exact"}

\* C1: the saturating loop returns a count c with 0 <= c <= n, the sum of the
\* counts of its primitive calls, and c < n only when its last primitive call
\* returned exactly 0.
C1_SaturatingCount ==
  (Done /\ op.name \in SaturatingOps /\ outcome.kind = "ok") =>
    /\ outcome.value = "count"
    /\ 0 <= outcome.count /\ outcome.count <= op.n
    /\ outcome.count = Transferred(log)
    /\ outcome.count < op.n => (log # <<>> /\ LastCall.ret = 0)
\* A write that stored a part of its buffer and then met the full device.
C1_Witness ==
  /\ Done /\ op.name = "write" /\ outcome.kind = "ok"
  /\ 0 < outcome.count /\ outcome.count < op.n
  /\ LastCall.ret = 0

\* C2: an exact operation raises end_of_file_error (reads) or
\* insufficient_space_error (writes) exactly when the saturating loop over the
\* same request transfers fewer bytes than requested, the error carries
\* exactly the count transferred, and a full transfer returns with no value.
C2_ExactOrFail ==
  (Done /\ op.name \in ExactReads \cup ExactWrites /\ NoFailure /\ ~OffsetInvalid(op.off)) =>
    /\ Transferred(log) < op.n =>
         /\ outcome.kind = (IF op.name \in ExactReads THEN "end_of_file_error"
                            ELSE "insufficient_space_error")
         /\ outcome.count = Transferred(log)
    /\ Transferred(log) >= op.n => outcome = ReturnsVoid
\* Scenario E: an exact read of more bytes than the file holds, after some were read.
C2_Witness ==
  /\ Done /\ op.name = "read_exact" /\ outcome.kind = "end_of_file_error"
  /\ outcome.count > 0 /\ outcome.count = Len(content) - op.pos0

\* C3: the partial count carried by an end_of_file_error or an
\* insufficient_space_error is strictly less than the size requested.
C3_PartialCountBelowRequest ==
  (Done /\ outcome.kind \in {"end_of_file_error", "insufficient_space_error"}) =>
    (0 <= outcome.count /\ outcome.count < op.n)
\* An exact write that stored a part of its buffer before the device was full.
C3_Witness ==
  /\ Done /\ op.name = "write_exact" /\ outcome.kind = "insufficient_space_error"
  /\ outcome.count > 0

WholeReads == {"read_all", "pread_all"}
\* Where a read starts: the cursor at the call, or the offset given.
StartOf(o) == IF o.name \in PositionalReads THEN o.off ELSE o.pos0
IsTransfer(e) == e.call \in TransferCalls
\* Some transfer moved fewer bytes than it was asked for.
ShortTransfer == \E i \in 1..Len(log) : IsTransfer(log[i]) /\ 0 <= log[i].ret /\ log[i].ret < log[i].count

\* C4: on a regular file of size s with the cursor at p <= s and no failing
\* system call, read() returns exactly the bytes [p, s) of the file.
C4_WholeReadReturnsRest ==
  (Done /\ op.name = "read_all" /\ handle >= 0 /\ op.pos0 <= op.size0 /\ NoFailure) =>
    /\ outcome.kind = "ok"
    /\ outcome.bytes = SubSeq(content, op.pos0 + 1, op.size0)

\* C5: when the reported size is not 0 and the start position (the cursor of
\* read(), a representable offset of pread(offset)) is at or past it, the
\* whole-file read returns an empty result, issues no transfer and raises no error.
C5_AtOrPastEndReturnsEmpty ==
  (Done /\ op.name \in WholeReads /\ handle >= 0 /\ ~OffsetInvalid(op.off)
        /\ op.size0 # 0 /\ StartOf(op) >= op.size0) =>
    /\ outcome = ReturnsVector(EmptyVector)
    /\ \A i \in 1..Len(log) : ~IsTransfer(log[i])

\* C6: in read_once / write_once / pread_once / pwrite_once every call but the
\* last failed with EINTR and was reissued with the same descriptor, buffer
\* position, size and offset; the last call did not fail with EINTR and its
\* result is what the operation reports: its count, or its error code.
C6_InterruptedCallIsReissued ==
  (op.name \in {"read_once", "write_once", "pread_once", "pwrite_once"} /\ log # <<>>) =>
    /\ \A i \in 1..(Len(log) - 1) :
         /\ log[i].ret = -1 /\ log[i].errno = "EINTR"
         /\ [log[i] EXCEPT !.ret = 0, !.errno = "none"]
              = [log[i + 1] EXCEPT !.ret = 0, !.errno = "none"]
    /\ Done =>
         /\ LastCall.errno # "EINTR"
         /\ outcome = (IF LastCall.ret = -1 THEN mfile_system_error(LastCall.errno)
                       ELSE Returns(LastCall.ret))
    /\ ~Done => LastCall.errno = "EINTR"
\* A read_once that was interrupted, reissued, and then transferred a part of the buffer.
C6_Witness ==
  /\ Done /\ op.name = "read_once" /\ Len(log) = 2
  /\ log[1].errno = "EINTR"
  /\ outcome.kind = "ok" /\ 0 < outcome.count /\ outcome.count < op.n

PassthroughOps == {"open", "read_once", "write_once", "seek", "tell", "stat", "size", "empty",
                   "truncate", "sync"}
C8_ShortIsNotAnError ==
  Done =>
    /\ outcome.kind = "end_of_file_error" => op.name \in ExactReads
    /\ outcome.kind = "insufficient_space_error" => op.name \in ExactWrites
    /\ (/\ op.name \in (SequentialReads \cup SequentialWrites \cup PositionalReads
                          \cup PositionalWrites) \ (ExactReads \cup ExactWrites)
        /\ ShortTransfer /\ NoFailure) => outcome.kind = "ok"
\* A read(size) that met the end of the file after a part of the size.
C8_Witness ==
  /\ Done /\ op.name = "read_size" /\ ShortTransfer
  /\ outcome.kind = "ok" /\ 0 < outcome.count /\ outcome.count < op.n

\* C9: a saturating read of n bytes that starts at position p of a file of
\* size s returns min(n, max(0, s - p)) when no system call fails; and a
\* read_once that follows a short saturating read, with no write or seek in
\* between, returns 0.
C9_SaturatingReadCount ==
  Done =>
    /\ (op.name \in {"read", "pread"} /\ outcome.kind = "ok") =>
         outcome.count = Min(op.n, Max(0, op.size0 - StartOf(op)))
    /\ (op.name = "read_once" /\ op.after_short /\ outcome.kind = "ok") =>
         outcome.count = 0
\* A read_once with a non-empty buffer right after a saturating read that came back short.
C9_Witness ==
  /\ Done /\ op.name = "read_once" /\ op.after_short /\ op.n > 0
  /\ op.size0 > 0 /\ outcome.kind = "ok"

\* The calls of one saturating loop over a buffer of n bytes: each is issued
\* on the part of the buffer the calls before it left.
RECURSIVE OneLoopOver(_, _, _)
OneLoopOver(l, n, done) ==
  \/ l = <<>>
  \/ /\ Head(l).count = n - done /\ Head(l).bufoff = done
     /\ OneLoopOver(Tail(l), n, done + (IF Head(l).ret > 0 THEN Head(l).ret ELSE 0))

\* C10: read(size) / pread(size, offset) works on a buffer of exactly size
\* bytes, runs one saturating loop over it, and returns a vector whose length
\* is the count transferred (<= size) and whose bytes are the bytes
\* transferred; a short count is not a failure.
C10_SizedRead ==
  (op.name \in {"read_size", "pread_size"} /\ ~OffsetInvalid(op.off)) =>
    /\ ~Done => buffer.size = op.n
    /\ OneLoopOver(log, op.n, 0)
    /\ (Done /\ NoFailure) =>
         /\ outcome.kind = "ok" /\ outcome.value = "vector"
         /\ Len(outcome.bytes) = Transferred(log)
         /\ outcome.count = Transferred(log)
         /\ outcome.count <= op.n
         /\ outcome.bytes = FileBytes(StartOf(op), Transferred(log))
\* A read(size) that returned a part of the size, read in two transfers.
C10_Witness ==
  /\ Done /\ op.name = "read_size" /\ outcome.kind = "ok"
  /\ Len(outcome.bytes) = 2 /\ op.n = 3 /\ Len(log) = 3

\* C11: the whole-file read of an empty file from position 0 (read() with the
\* cursor at 0, pread(0)) ends after one pass over its initial buffer with a
\* zero-length result and no error, when no system call fails.
C11_EmptyFileReadsEmpty ==
  (op.name \in WholeReads /\ handle >= 0 /\ op.size0 = 0 /\ StartOf(op) = 0 /\ NoFailure) =>
    /\ Len(passes) <= 1
    /\ Len(passes) = 1 => Done
    /\ Done => outcome = ReturnsVector(EmptyVector)
\* read() of an empty file, after its one ::read over the initial buffer met the end of the file.
C11_Witness ==
  /\ Done /\ op.name = "read_all" /\ op.size0 = 0 /\ op.pos0 = 0
  /\ passes = <<0>> /\ log # <<>>
  /\ LastCall.call = "read" /\ LastCall.count = init_buffer_size /\ LastCall.ret = 0
  /\ outcome.kind = "ok" /\ outcome.bytes = <<>>

\* Where a write starts: the cursor at the call, or the offset given.
WriteStart(o) == IF o.name \in PositionalWrites THEN o.off ELSE o.pos0
\* An exact write that returned has stored its bytes at its start position,
\* and a sequential one has moved the cursor past them.
ExactWriteStored ==
  (Done /\ op.name \in ExactWrites /\ outcome = ReturnsVoid) =>
    /\ op.n > 0 => Len(content) >= WriteStart(op) + op.n
    /\ FileBytes(WriteStart(op), op.n) = op.payload
    /\ op.name = "write_exact" => cursor = op.pos0 + op.n
\* An exact or sized read that returned all the bytes asked for holds the
\* bytes of the file at its start position.
FullReadFetched ==
  /\ (Done /\ op.name \in ExactReads /\ outcome = ReturnsVoid) =>
       /\ op.n > 0 => Len(content) >= StartOf(op) + op.n
       /\ Elements(buffer) = FileBytes(StartOf(op), op.n)
  /\ (Done /\ op.name \in {"read_size", "pread_size"} /\ outcome.kind = "ok"
           /\ outcome.count = op.n) =>
       /\ op.n > 0 => Len(content) >= StartOf(op) + op.n
       /\ outcome.bytes = FileBytes(StartOf(op), op.n)
\* The file's bytes change only in a step of a write or of truncate.
ContentKept == content' # content => pc \in {"write_once", "pwrite_once", "truncate"}

StoredByStep(i) ==
  /\ pc \in {"write_once", "pwrite_once"}
  /\ log' # <<>>
  /\ LET e == log'[Len(log')] IN e.ret > 0 /\ i > e.pos /\ i <= e.pos + e.ret
\* A byte that the step does not store keeps its value, and is zero when
\* the step brings it into the file (a hole, or the extension by truncate).
HolesAreZero ==
  \A i \in 1..Len(content') :
    ~StoredByStep(i) => content'[i] = (IF i <= Len(content) THEN content[i] ELSE 0)
\* A read of n bytes that lie wholly inside the file returns the full count
\* and the bytes of the file, holes included, when no system call fails.
ReadInsideIsFull ==
  (/\ Done /\ NoFailure /\ ~OffsetInvalid(op.off)
   /\ op.name \in {"read", "pread", "read_exact", "pread_exact", "read_size", "pread_size"}
   /\ StartOf(op) + op.n <= op.size0) =>
    /\ outcome.kind = "ok"
    /\ op.name \in {"read", "pread", "read_size", "pread_size"} => outcome.count = op.n
    /\ (IF outcome.value = "vector" THEN outcome.bytes ELSE Elements(buffer))
         = FileBytes(StartOf(op), op.n)

PositionalOps == PositionalReads \cup PositionalWrites
\* C14: a positional operation leaves the cursor where it was at the call,
\* issues no system call that uses or moves the cursor, and issues each
\* transfer at the given offset advanced by the bytes already transferred;
\* what a read returns is the file's bytes at that offset, whatever the cursor.
C14_CursorUntouched ==
  op.name \in PositionalOps =>
    /\ cursor = op.pos0
    /\ \A i \in 1..Len(log) :
         /\ log[i].call \in {"pread", "pwrite", "fstat"}
         /\ IsTransfer(log[i]) => log[i].pos = op.off + log[i].bufoff
    /\ (Done /\ op.name \in {"pread", "pread_exact", "pread_size"} /\ outcome.kind = "ok") =>
         LET got == Min(op.n, Max(0, op.size0 - op.off)) IN
         (IF outcome.value = "vector" THEN outcome.bytes ELSE SubSeq(Elements(buffer), 1, got))
           = FileBytes(op.off, got)
\* A pread at offset 0 that returned two bytes while the cursor stood at 2.
C14_Witness ==
  /\ Done /\ op.name = "pread" /\ op.off = 0 /\ cursor = 2 /\ op.pos0 = 2
  /\ outcome.kind = "ok" /\ outcome.count = 2

\* C15: a positional operation given an offset above the maximum signed
\* value ends at once with a system error carrying EINVAL (invalid
\* argument); it issues no system call and returns no count.
C15_InvalidOffsetIsRejected ==
  (op.name \in PositionalOps /\ op.off > OFF_MAX) =>
    /\ Done
    /\ outcome = mfile_system_error("EINVAL")
    /\ log = <<>>
\* Scenario C: pread_once into a non-empty buffer at the largest unsigned offset.
C15_Witness ==
  /\ Done /\ op.name = "pread_once" /\ op.off = SIZE_MAX /\ op.n > 0 /\ handle >= 0
  /\ outcome.kind = "mfile_system_error" /\ outcome.code = "EINVAL" /\ log = <<>>

\* C16: pread(offset) with offset below the size s of the file returns
\* exactly s - offset bytes, the file's bytes from offset to the end, holes
\* as zeros, when no system call fails.
C16_PReadAllReturnsRest ==
  (Done /\ op.name = "pread_all" /\ handle >= 0 /\ op.off < op.size0 /\ NoFailure) =>
    /\ outcome.kind = "ok"
    /\ outcome.count = op.size0 - op.off
    /\ outcome.bytes = SubSeq(content, op.off + 1, op.size0)
\* pread(1) of a 3-byte file whose middle byte is a hole, read in two transfers.
C16_Witness ==
  /\ Done /\ op.name = "pread_all" /\ op.off = 1 /\ op.size0 = 3
  /\ outcome.kind = "ok" /\ Len(outcome.bytes) = 2
  /\ outcome.bytes[1] = 0 /\ outcome.bytes[2] # 0
  /\ Len(SelectSeq(log, IsTransfer)) = 2

\* C17: a whole-file read that ends with a result, issued from the position
\* an earlier one of the same form started at, with nothing but seek, tell
\* or stat in between, ends with the same result: same length, same bytes.
C17_WholeReadTwiceSame ==
  (/\ Done /\ op.name \in WholeReads /\ outcome.kind = "ok"
   /\ held.name = op.name /\ held.start = StartOf(op) /\ held.outcome.kind = "ok") =>
    outcome = held.outcome

\* The live file objects that hold descriptor f.
Owners(f) == {o \in Obj : files[o].alive /\ files[o].fd = f}
\* C18: over every sequence of construct, open, move-construct, move-assign,
\* swap and destroy, no descriptor is closed twice, a descriptor is open
\* exactly while one live file object holds it, the source of a move and a
\* default-constructed file hold -1, and destroying a file that holds -1
\* makes no system call.
C18_ClosedExactlyOnce ==
  /\ \A f \in Fds :
       /\ fdtab[f].closes <= 1
       /\ Cardinality(Owners(f)) <= 1
       /\ fdtab[f].state = "open" <=> Owners(f) # {}
       /\ fdtab[f].state = "closed" => fdtab[f].closes = 1
  /\ (last.name \in {"move_construct", "move_assign"} /\ last.dst # last.src) =>
       files[last.src].fd = invalid_file_handle
  /\ last.name = "construct" => files[last.dst].fd = invalid_file_handle
  /\ (last.name = "destroy" /\ last.fd = invalid_file_handle) => last.calls = <<>>
\* A move-assignment onto a file that owned a descriptor: that descriptor was
\* closed, the target now owns the source's, and the source holds -1.
C18_Witness ==
  /\ last.name = "move_assign" /\ last.dst # last.src
  /\ last.fd \in Fds /\ fdtab[last.fd].state = "closed" /\ fdtab[last.fd].closes = 1
  /\ files[last.dst].fd \in Fds /\ fdtab[files[last.dst].fd].state = "open"
  /\ files[last.src].fd = invalid_file_handle

\* C19: destroying a temporary file that holds a valid descriptor calls
\* unlink on the name mkstemp generated and then ::close on the descriptor,
\* each once over the life of the descriptor; destroying one that holds -1
\* calls neither.
C19_UnlinkThenClose ==
  /\ (last.name = "destroy" /\ last.fd \in Fds /\ fdtab[last.fd].kind = "tmp") =>
       /\ last.calls = <<[call |-> "unlink", fd |-> invalid_file_handle,
                          path |-> fdtab[last.fd].path],
                         [call |-> "close", fd |-> last.fd, path |-> EmptyName]>>
       /\ fdtab[last.fd].unlinks = 1
       /\ fdtab[last.fd].closes = 1
  /\ (last.name = "destroy" /\ last.fd = invalid_file_handle) => last.calls = <<>>

C21_NoWrapNoClamp ==
  (op.name = "read_all" /\ handle >= 0 /\ ~SizeUnknown(op.size0) /\ ~AtEnd(op.pos0, op.size0)) =>
    /\ RemainingSize(op.size0, op.pos0) = op.size0 - op.pos0
    /\ op.size0 - op.pos0 > VectorMaxSize => (Done /\ outcome = length_error)
    /\ (pc = "pass" /\ passes # <<>>) => buffer.size = (total \div 2) * 3

\* read() stands at the head of its loop with the buffer full and a growth
\* step that gives the size the buffer has: the pass over the empty rest
\* reads nothing, is not short, and the loop is back here.
LoopRepeats == pc = "pass" /\ total = buffer.size /\ GrowSize(buffer.size) = buffer.size
\* C22: read() on a file of size s with the cursor at p <= s comes to an
\* end: its loop never reaches a state that the next pass leaves as it is,
\* nor one where what it does is undefined.
C22_WholeReadTerminates ==
  (op.name = "read_all" /\ handle >= 0 /\ op.pos0 <= op.size0) =>
    /\ ~LoopRepeats
    /\ pc # "undefined"

\* C23: the saturating loop over n bytes makes at most n calls that transfer
\* something and at most one that transfers nothing, which is its last; it
\* runs only while bytes are left and stops when none is; with n = 0 it
\* makes no call and returns 0.
C23_LoopIsBounded ==
  (op.name \in SaturatingOps /\ ~OffsetInvalid(op.off)) =>
    /\ Len(SelectSeq(log, LAMBDA e : e.ret > 0)) <= op.n
    /\ Len(SelectSeq(log, LAMBDA e : e.ret = 0)) <= 1
    /\ \A i \in 1..Len(log) : log[i].ret = 0 => (i = Len(log) /\ Done)
    /\ ~Done => Transferred(log) < op.n
    /\ Transferred(log) = op.n => Done
    /\ op.n = 0 => (Done /\ log = <<>> /\ outcome = Returns(0))
\* A write of 3 bytes that stored one byte, then one more, then met the full device.
C23_Witness ==
  /\ Done /\ op.name = "write" /\ op.n = 3 /\ Len(log) = 3
  /\ log[1].ret = 1 /\ log[2].ret = 1 /\ log[3].ret = 0
  /\ outcome = Returns(2)

\* C24: a whole-file read that finds a size above its start position works
\* on a buffer of exactly size - position bytes and makes exactly one pass
\* of the saturating loop over it: after that pass it is over, full or
\* short, with the buffer trimmed to the bytes of the pass; nothing is grown
\* and nothing more is read.
C24_KnownSizeOnePass ==
  (/\ op.name \in WholeReads /\ handle >= 0 /\ ~OffsetInvalid(op.off)
   /\ op.size0 > StartOf(op)) =>
    /\ (~Done /\ passes = <<>>) => buffer.size = op.size0 - StartOf(op)
    /\ buffer.size <= op.size0 - StartOf(op)
    /\ Len(passes) <= 1
    /\ Len(passes) = 1 =>
         /\ Done
         /\ outcome = ReturnsVector(buffer)
         /\ outcome.count = passes[1]
         /\ outcome.bytes = FileBytes(StartOf(op), passes[1])

\* C25: read() starts its loop with 4096 bytes when the size is reported as
\* 0, and a growth step sets the capacity to 1.5 times the capacity the pass
\* has just filled (the bytes read so far), which is more than that capacity.
C25_GrowthByOneAndAHalf ==
  (op.name = "read_all" /\ handle >= 0) =>
    /\ (SizeUnknown(op.size0) /\ passes = <<>> /\ ~Done) => buffer.size = init_buffer_size
    /\ (pc = "pass" /\ passes # <<>>) =>
         /\ buffer.size = (3 * total) \div 2
         /\ buffer.size > total

RECURSIVE SumOf(_)
SumOf(counts) == IF counts = <<>> THEN 0 ELSE Head(counts) + SumOf(Tail(counts))
\* C30: in read() the bytes read so far never exceed the size of the
\* buffer, the buffer holds them as they were read (no resize has dropped
\* any), and a result has the length of the sum of the counts of the passes.
C30_ReadStaysInBuffer ==
  op.name = "read_all" =>
    /\ total <= buffer.size
    /\ total = SumOf(passes)
    /\ ~Done => SubSeq(Elements(buffer), 1, total) = FileBytes(op.pos0, total)
    /\ (Done /\ outcome.kind = "ok") =>
         /\ outcome.count = SumOf(passes)
         /\ Len(outcome.bytes) = SumOf(passes)

\* The operations that run one saturating loop over a buffer of op.n bytes.
LoopOps == SaturatingOps \cup ExactReads \cup ExactWrites \cup {"read_size", "pread_size"}
\* Where the loop of `o` starts in the file: the offset given, or the cursor at the call.
LoopStart(o) == IF o.name \in PositionalOps THEN o.off ELSE o.pos0
\* The calls of `l` are issued, in order, each on the suffix the calls before
\* it left: of the buffer of n bytes, and of the file from `start`.
RECURSIVE SuffixCalls(_, _, _, _)
SuffixCalls(l, n, start, done) ==
  \/ l = <<>>
  \/ /\ Head(l).bufoff = done
     /\ Head(l).count = n - done
     /\ Head(l).pos = start + done
     /\ SuffixCalls(Tail(l), n, start, done + (IF Head(l).ret > 0 THEN Head(l).ret ELSE 0))

\* C26: in one saturating loop the k-th call of the primitive is issued on
\* the suffix left by the calls before it: buffer start = the sum of their
\* counts, length = n minus that sum, file position = the start position
\* plus that sum; and when it is issued the calls before it have taken
\* effect: the bytes are in the buffer (reads) or in the file (writes), and
\* in sequential mode the cursor has advanced by the sum.
C26_SuffixInOrder ==
  (op.name \in LoopOps /\ ~OffsetInvalid(op.off)) =>
    LET sum == Transferred(log) IN
    /\ SuffixCalls(log, op.n, LoopStart(op), 0)
    /\ sum <= op.n
    /\ op.name \in PositionalOps => cursor = op.pos0
    /\ op.name \notin PositionalOps => cursor = op.pos0 + sum
    /\ op.name \in SequentialReads \cup PositionalReads =>
         SubSeq(Elements(buffer), 1, sum) = FileBytes(LoopStart(op), sum)
    /\ op.name \in SequentialWrites \cup PositionalWrites =>
         FileBytes(LoopStart(op), sum) = SubSeq(op.payload, 1, sum)
\* A pwrite of 3 bytes at offset 0 that took three calls of one byte each.
C26_Witness ==
  /\ Done /\ op.name = "pwrite" /\ op.off = 0 /\ op.n = 3 /\ Len(log) = 3
  /\ \A i \in 1..3 : log[i].ret = 1 /\ log[i].pos = i - 1 /\ log[i].bufoff = i - 1
  /\ content = op.payload

\* C27: a system call that fails (other than an interruption of the
\* primitive) inside a saturating loop, an exact operation, a sized read or
\* a whole-file read is the last call of the operation, and the operation
\* ends with mfile_system_error carrying that call's errno: no short count,
\* no end_of_file_error or insufficient_space_error, no bytes or count of
\* the transfers before it.
C27_FailurePropagates ==
  op.name \in LoopOps \cup WholeReads =>
    \A i \in 1..Len(log) :
      Failed(log[i]) =>
        /\ i = Len(log)
        /\ Done
        /\ outcome = mfile_system_error(log[i].errno)
\* A read_exact whose second ::read failed with EIO after the first had read a byte.
C27_Witness ==
  /\ Done /\ op.name = "read_exact" /\ Len(log) = 2
  /\ log[1].ret > 0 /\ log[2].ret = -1 /\ log[2].errno = "EIO"
  /\ outcome = mfile_system_error("EIO")

\* The operations that issue one system call and report its result.
SingleCallOps == {"open", "seek", "tell", "stat", "size", "empty", "sync"}
\* A call that failed and was followed by another call of the operation.
Reissued(i) == i < Len(log) /\ log[i].ret = -1
\* What an operation that ends with its last system call reports.
ReportsLastCall ==
  /\ log # <<>>
  /\ LastCall.ret = -1 => outcome = mfile_system_error(LastCall.errno)
  /\ LastCall.ret # -1 => outcome.kind = "ok"

\* C28 as stated: a failed system call is followed by another one only when
\* it is an interrupted ::read / ::write (or positional form) of the
\* primitive; open, seek, tell, stat, truncate and sync issue one system
\* call per call and report its failure, EINTR included.
C28_OnlyPrimitivesRetry ==
  /\ \A i \in 1..Len(log) :
       Reissued(i) => (log[i].errno = "EINTR" /\ log[i].call \in TransferCalls)
  /\ op.name \in SingleCallOps \cup {"truncate"} =>
       /\ Len(log) <= 1
       /\ Done => ReportsLastCall
\* C28, amended: a failed system call is reissued only when it failed with
\* EINTR and is the ::read / ::write of the primitive or the ::ftruncate of
\* truncate, and then with the same arguments; open, seek, tell, stat and
\* sync issue exactly one system call and report its failure, EINTR
\* included; truncate reports the result of its last ::ftruncate, which is
\* not EINTR.
C28_OnlyInterruptionsRetried ==
  /\ \A i \in 1..Len(log) :
       Reissued(i) =>
         /\ log[i].errno = "EINTR" /\ log[i].call \in RetriedCalls
         /\ [log[i] EXCEPT !.ret = 0, !.errno = "none"]
              = [log[i + 1] EXCEPT !.ret = 0, !.errno = "none"]
  /\ op.name \in SingleCallOps => (Done /\ Len(log) = 1 /\ ReportsLastCall)
  /\ (op.name = "truncate" /\ Done) =>
       /\ ReportsLastCall
       /\ LastCall.errno # "EINTR"
       /\ LastCall.ret # -1 => outcome = ReturnsVoid
\* A sync whose ::fsync was interrupted: one call, and the caller gets EINTR.
C28_Witness ==
  /\ Done /\ op.name = "sync" /\ handle >= 0 /\ Len(log) = 1
  /\ LastCall.call = "fsync" /\ LastCall.errno = "EINTR"
  /\ outcome = mfile_system_error("EINTR")

\* The operations that move bytes at the cursor and report a count.
CountingOps == {"read_once", "read", "write_once", "write"}
\* C29 as stated: a sequential operation leaves the cursor at its value at
\* the call plus the count it reports (plus n for an exact operation that
\* succeeds); tell, stat and size leave it where it was; tell and seek
\* return the cursor's value as they leave it.
C29_CursorAdvancesByCount ==
  Done =>
    /\ (op.name \in CountingOps /\ outcome.kind = "ok") => cursor = op.pos0 + outcome.count
    /\ (op.name \in {"read_exact", "write_exact"} /\ outcome = ReturnsVoid) =>
         cursor = op.pos0 + op.n
    /\ op.name \in {"tell", "stat", "size", "empty"} => cursor = op.pos0
    /\ (op.name \in {"tell", "seek"} /\ outcome.kind = "ok") => outcome.count = cursor
\* Where a write of c bytes starts: with O_APPEND and c > 0 at the end of
\* the file as the call finds it, else at the cursor.
WriteOrigin(o, c) == IF Appends /\ c > 0 THEN o.size0 ELSE o.pos0
\* C29, amended: a sequential read leaves the cursor at its value at the
\* call plus the count reported; a sequential write does so on a descriptor
\* opened without O_APPEND, and with O_APPEND a write that stores c > 0
\* bytes leaves it at the size of the file at the call plus c; tell, stat
\* and size leave it where it was; tell and seek return its value.
C29_CursorAdvancesUnlessAppend ==
  Done =>
    /\ (op.name \in {"read_once", "read"} /\ outcome.kind = "ok") =>
         cursor = op.pos0 + outcome.count
    /\ (op.name = "read_exact" /\ outcome = ReturnsVoid) => cursor = op.pos0 + op.n
    /\ (op.name \in {"write_once", "write"} /\ outcome.kind = "ok") =>
         cursor = WriteOrigin(op, outcome.count) + outcome.count
    /\ (op.name = "write_exact" /\ outcome = ReturnsVoid) =>
         cursor = WriteOrigin(op, op.n) + op.n
    /\ op.name \in {"tell", "stat", "size", "empty"} => cursor = op.pos0
    /\ (op.name \in {"tell", "seek"} /\ outcome.kind = "ok") => outcome.count = cursor
\* A write of 2 bytes at cursor 1 of a file opened without O_APPEND that
\* holds 3 bytes: the cursor stands at 3, inside the bytes the file had.
C29_Witness ==
  /\ Done /\ op.name = "write" /\ ~Appends
  /\ op.pos0 = 1 /\ op.size0 = 3 /\ outcome = Returns(2) /\ cursor = 3

====
